---- MODULE Spec2Model ----
(***************************************************************************)
(* Model of the go-insight Go SDK client: the trace/span lifecycle          *)
(* (tracing.go), the transport, the logging helpers and the Instrument      *)
(* wrapper (client.go).                                                     *)
(*                                                                          *)
(* A context.Context is a chain of (key, value) nodes; a *TraceContext     *)
(* lives in the node that holds it.  The collector is the environment:      *)
(* every request gets a response chosen from a small set.                   *)
(***************************************************************************)
EXTENDS Integers, Sequences, FiniteSets, TLC

\* ---------------------------------------------------------------- bounds
MaxCtx == 3      \* contexts that exist at once (the background one included)
MaxArgs == 2     \* variadic arguments given to one LogError call

\* ------------------------------------------------------------- constants
TraceKey == "go-insight-trace"
ErrNoTrace == "no trace context found"
ErrMarshal == "failed to marshal request"
ErrSend == "failed to send request"
ErrStatus == "API request failed with status"
ErrDecode == "failed to decode response"
NoErr == ""
serviceName == "svc"              \* c.serviceName, from Config.ServiceName

NoId == "<no string id>"          \* decoded JSON without a string field "id"
IdSet == {"", "a", "b"}           \* ids a collector may put in field "id"
Operations == {"op"}

\* ------------------------------------------------- the collector's answers
\* status 0: the round trip failed (client.Do returned an error).
NetFail == [status |-> 0, json |-> FALSE, id |-> NoId]
Http500 == [status |-> 500, json |-> TRUE, id |-> NoId]
OkGarbage == [status |-> 200, json |-> FALSE, id |-> NoId]
OkNoId == [status |-> 200, json |-> TRUE, id |-> NoId]
OkId(i) == [status |-> 200, json |-> TRUE, id |-> i]

CreateResps == {NetFail, Http500, OkGarbage, OkNoId} \cup {OkId(i) : i \in IdSet}
PlainResps == {NetFail, Http500, OkGarbage}

\* ------------------------------------------------------------ the context
NilVal == [type |-> "nil", TraceID |-> "", SpanID |-> ""]
Background == [parent |-> 0, key |-> "<background>", val |-> NilVal]

\* ctx.Value(key): the nearest node of the chain that holds key.
RECURSIVE Value(_, _, _)
Value(cs, c, key) ==
    IF c = 0 THEN NilVal
    ELSE IF cs[c].key = key THEN cs[c].val
    ELSE Value(cs, cs[c].parent, key)

\* context.WithValue(parent, key, val): a new node; the parent is untouched.
WithValue(cs, parent, key, val) ==
    Append(cs, [parent |-> parent, key |-> key, val |-> val])

\* The node that answers ctx.Value(key), 0 when no node holds key.
RECURSIVE Holder(_, _, _)
Holder(cs, c, key) ==
    IF c = 0 THEN 0
    ELSE IF cs[c].key = key THEN c
    ELSE Holder(cs, cs[c].parent, key)

\* (mutant) the type assertion is not checked.
GetTraceFromContextUnchecked(cs, c) == Holder(cs, c, TraceKey)

\* The *TraceContext in ctx (the node that holds it), 0 for nil: no value
\* under the key, or the type assertion failed.
GetTraceFromContext(cs, c) ==
    IF Value(cs, c, TraceKey).type = "*TraceContext"
    THEN Holder(cs, c, TraceKey) ELSE 0

\* -------------------------------------------------------------- transport
\* A metadata value (interface{}): a string, an integer, a value that
\* encoding/json cannot encode (a func, a channel, a NaN), or no entry.
Absent == [t |-> "absent", s |-> "", i |-> 0]
StrVal(s) == [t |-> "string", s |-> s, i |-> 0]
IntVal(i) == [t |-> "int", s |-> "", i |-> i]
FuncVal == [t |-> "func", s |-> "", i |-> 0]

\* map[string]interface{}: a function over the keys that occur in the program.
MetaKeys == {"operation", "duration_ms", "error", "a", "path", "status_code"}
EmptyMap == [k \in MetaKeys |-> Absent]

\* The JSON fields of the request bodies (Trace, Span, LogEntry, Metric) that
\* the program fills in or that tell one body from another.
EmptyBody == [service_name |-> "", trace_id |-> "", parent_id |-> "",
              operation |-> "", level |-> "", message |-> <<>>, span_id |-> "",
              path |-> "", status_code |-> 0, meta |-> EmptyMap]

Request(ep, id, body, resp) == [ep |-> ep, id |-> id, body |-> body, resp |-> resp]

\* json.Marshal(data) fails on a value it cannot encode.
Marshalable(body) == \A k \in MetaKeys : body.meta[k].t # "func"

\* (mutant) every call decodes the response body.
sendRequestWithResponseAlwaysDecode(w, ep, id, body, resp, wantResponse) ==
    LET w1 == [w EXCEPT !.reqs = Append(@, Request(ep, id, body, resp))]
    IN  IF ~Marshalable(body) THEN [w |-> w, err |-> ErrMarshal]
        ELSE IF resp.status = 0 THEN [w |-> w1, err |-> ErrSend]
        ELSE IF resp.status < 200 \/ resp.status >= 300
             THEN [w |-> w1, err |-> ErrStatus]
        ELSE IF ~resp.json THEN [w |-> w1, err |-> ErrDecode]
        ELSE [w |-> w1, err |-> NoErr]

\* (mutant) a request that got no answer is sent once more.
sendRequestWithResponseRetry(w, ep, id, body, resp, wantResponse) ==
    LET w1 == [w EXCEPT !.reqs = Append(@, Request(ep, id, body, resp))]
        w2 == [w1 EXCEPT !.reqs = Append(@, Request(ep, id, body, resp))]
    IN  IF ~Marshalable(body) THEN [w |-> w, err |-> ErrMarshal]
        ELSE IF resp.status = 0 THEN [w |-> w2, err |-> ErrSend]
        ELSE IF resp.status < 200 \/ resp.status >= 300
             THEN [w |-> w1, err |-> ErrStatus]
        ELSE IF wantResponse /\ ~resp.json THEN [w |-> w1, err |-> ErrDecode]
        ELSE [w |-> w1, err |-> NoErr]

\* http.NewRequest is given a well-formed endpoint and path and succeeds.
sendRequestWithResponse(w, ep, id, body, resp, wantResponse) ==
    LET w1 == [w EXCEPT !.reqs = Append(@, Request(ep, id, body, resp))]
    IN  IF ~Marshalable(body) THEN [w |-> w, err |-> ErrMarshal]
        ELSE IF resp.status = 0 THEN [w |-> w1, err |-> ErrSend]
        ELSE IF resp.status < 200 \/ resp.status >= 300
             THEN [w |-> w1, err |-> ErrStatus]
        ELSE IF wantResponse /\ ~resp.json THEN [w |-> w1, err |-> ErrDecode]
        ELSE [w |-> w1, err |-> NoErr]

\* http.NewRequest(method, url, body): the request is bound to no context of
\* the caller (0: it carries context.Background()), whatever ctx the
\* operation was given.
NewRequestWithContext(ctx) == ctx            \* (mutant) bound to the caller's ctx
NewRequest(ctx) == 0

sendRequest(w, ep, id, body, resp) ==
    sendRequestWithResponse(w, ep, id, body, resp, FALSE)

sendLog(w, entry, resp) == sendRequest(w, "/logs", "", entry, resp)

sendMetric(w, metric, resp) ==
    sendRequest(w, "/metrics", "",
        [EmptyBody EXCEPT !.service_name = metric.ServiceName, !.path = metric.Path,
                          !.status_code = metric.StatusCode,
                          !.meta = metric.Metadata], resp)

sendTrace(w, resp) ==
    sendRequestWithResponse(w, "/traces", "",
        [EmptyBody EXCEPT !.service_name = serviceName], resp, TRUE)

\* (mutant) the span is sent without its parent id.
sendSpanNoParent(w, span, resp) ==
    sendRequestWithResponse(w, "/spans", "",
        [EmptyBody EXCEPT !.service_name = serviceName, !.trace_id = span.TraceID,
                          !.operation = span.Operation], resp, TRUE)

sendSpan(w, span, resp) ==
    sendRequestWithResponse(w, "/spans", "",
        [EmptyBody EXCEPT !.service_name = serviceName, !.trace_id = span.TraceID,
                          !.parent_id = span.ParentID,
                          !.operation = span.Operation], resp, TRUE)

endSpan(w, spanID, resp) == sendRequest(w, "/spans/%s/end", spanID, EmptyBody, resp)

endTrace(w, traceID, resp) == sendRequest(w, "/traces/%s/end", traceID, EmptyBody, resp)

\* ---------------------------------------------------------------- tracing
\* A *TraceContext is held by exactly one context node (each is allocated by
\* the call that attaches it), so the object lives in that node and a pointer
\* to it is the node's index.  In a returned pointer tc, ptr = 0 is nil and
\* ptr = -1 an object no context holds.
NilTC == [ptr |-> 0, TraceID |-> "", SpanID |-> ""]
Carrier(traceID, spanID) ==
    [type |-> "*TraceContext", TraceID |-> traceID, SpanID |-> spanID]

\* Results: a panic returns nothing.
Panicked(w) == [w |-> w, ctx |-> 0, tc |-> NilTC, err |-> NoErr, panic |-> TRUE]
Returned(w, c, tc, err) == [w |-> w, ctx |-> c, tc |-> tc, err |-> err, panic |-> FALSE]

NoIssue == [by |-> "none", trace |-> "", span |-> ""]

\* (mutant) the root span names the trace as its parent.
StartTraceRootParent(w, ctx, operation, r1, r2) ==
    LET s1 == sendTrace(w, r1)
    IN  IF s1.err # NoErr THEN Returned(s1.w, ctx, NilTC, s1.err)
        ELSE IF r1.id = NoId THEN Panicked(s1.w)      \* resp["id"].(string)
        ELSE
        LET traceCtx == [ptr |-> -1, TraceID |-> r1.id, SpanID |-> ""]
            s2 == sendSpan(s1.w, [TraceID |-> traceCtx.TraceID, ParentID |-> traceCtx.TraceID,
                                  Operation |-> operation], r2)
        IN  IF s2.err # NoErr THEN Returned(s2.w, ctx, traceCtx, s2.err)
            ELSE IF r2.id = NoId THEN Panicked(s2.w)  \* spanResp["id"].(string)
            ELSE
            LET w2 == [s2.w EXCEPT
                         !.ctxs = WithValue(@, ctx, TraceKey,
                                            Carrier(traceCtx.TraceID, r2.id)),
                         !.issued = Append(@, [by |-> "StartTrace",
                                               trace |-> r1.id, span |-> r2.id])]
                newCtx == Len(w2.ctxs)
            IN  Returned(w2, newCtx,
                         [ptr |-> newCtx, TraceID |-> traceCtx.TraceID, SpanID |-> r2.id],
                         NoErr)

\* (mutant) a failed root span still attaches the half-built Carrier.
StartTraceAttachPartial(w, ctx, operation, r1, r2) ==
    LET s1 == sendTrace(w, r1)
    IN  IF s1.err # NoErr THEN Returned(s1.w, ctx, NilTC, s1.err)
        ELSE IF r1.id = NoId THEN Panicked(s1.w)      \* resp["id"].(string)
        ELSE
        LET traceCtx == [ptr |-> -1, TraceID |-> r1.id, SpanID |-> ""]
            s2 == sendSpan(s1.w, [TraceID |-> traceCtx.TraceID, ParentID |-> "",
                                  Operation |-> operation], r2)
        IN  IF s2.err # NoErr
            THEN Returned([s2.w EXCEPT
                             !.ctxs = WithValue(@, ctx, TraceKey,
                                                Carrier(traceCtx.TraceID, "")),
                             !.issued = Append(@, NoIssue)],
                          Len(s2.w.ctxs) + 1, traceCtx, s2.err)
            ELSE IF r2.id = NoId THEN Panicked(s2.w)  \* spanResp["id"].(string)
            ELSE
            LET w2 == [s2.w EXCEPT
                         !.ctxs = WithValue(@, ctx, TraceKey,
                                            Carrier(traceCtx.TraceID, r2.id)),
                         !.issued = Append(@, [by |-> "StartTrace",
                                               trace |-> r1.id, span |-> r2.id])]
                newCtx == Len(w2.ctxs)
            IN  Returned(w2, newCtx,
                         [ptr |-> newCtx, TraceID |-> traceCtx.TraceID, SpanID |-> r2.id],
                         NoErr)

\* (mutant) a failed create-trace is not returned at once.
StartTraceNoEarlyReturn(w, ctx, operation, r1, r2) ==
    LET s1 == sendTrace(w, r1)
    IN  IF s1.err = NoErr /\ r1.id = NoId THEN Panicked(s1.w)
        ELSE
        LET traceCtx == [ptr |-> -1, TraceID |-> r1.id, SpanID |-> ""]
            s2 == sendSpan(s1.w, [TraceID |-> traceCtx.TraceID, ParentID |-> "",
                                  Operation |-> operation], r2)
        IN  IF s1.err # NoErr \/ s2.err # NoErr
            THEN Returned(s2.w, ctx, IF s1.err # NoErr THEN NilTC ELSE traceCtx,
                          IF s1.err # NoErr THEN s1.err ELSE s2.err)
            ELSE IF r2.id = NoId THEN Panicked(s2.w)  \* spanResp["id"].(string)
            ELSE
            LET w2 == [s2.w EXCEPT
                         !.ctxs = WithValue(@, ctx, TraceKey,
                                            Carrier(traceCtx.TraceID, r2.id)),
                         !.issued = Append(@, [by |-> "StartTrace",
                                               trace |-> r1.id, span |-> r2.id])]
                newCtx == Len(w2.ctxs)
            IN  Returned(w2, newCtx,
                         [ptr |-> newCtx, TraceID |-> traceCtx.TraceID, SpanID |-> r2.id],
                         NoErr)

StartTrace(w, ctx, operation, r1, r2) ==
    LET s1 == sendTrace(w, r1)
    IN  IF s1.err # NoErr THEN Returned(s1.w, ctx, NilTC, s1.err)
        ELSE IF r1.id = NoId THEN Panicked(s1.w)      \* resp["id"].(string)
        ELSE
        LET traceCtx == [ptr |-> -1, TraceID |-> r1.id, SpanID |-> ""]
            s2 == sendSpan(s1.w, [TraceID |-> traceCtx.TraceID, ParentID |-> "",
                                  Operation |-> operation], r2)
        IN  IF s2.err # NoErr THEN Returned(s2.w, ctx, traceCtx, s2.err)
            ELSE IF r2.id = NoId THEN Panicked(s2.w)  \* spanResp["id"].(string)
            ELSE
            LET w2 == [s2.w EXCEPT
                         !.ctxs = WithValue(@, ctx, TraceKey,
                                            Carrier(traceCtx.TraceID, r2.id)),
                         !.issued = Append(@, [by |-> "StartTrace",
                                               trace |-> r1.id, span |-> r2.id])]
                newCtx == Len(w2.ctxs)
            IN  Returned(w2, newCtx,
                         [ptr |-> newCtx, TraceID |-> traceCtx.TraceID, SpanID |-> r2.id],
                         NoErr)

\* (mutant) the parent is the span of the context made last, not of ctx.
StartSpanFromLatest(w, ctx, operation, r) ==
    LET traceCtx == GetTraceFromContext(w.ctxs, Len(w.ctxs))
    IN  IF traceCtx = 0 THEN Returned(w, ctx, NilTC, ErrNoTrace)
        ELSE
        LET s == sendSpan(w, [TraceID |-> w.ctxs[traceCtx].val.TraceID,
                              ParentID |-> w.ctxs[traceCtx].val.SpanID,
                              Operation |-> operation], r)
        IN  IF s.err # NoErr THEN Returned(s.w, ctx, NilTC, s.err)
            ELSE IF r.id = NoId THEN Panicked(s.w)    \* resp["id"].(string)
            ELSE
            LET w2 == [s.w EXCEPT
                         !.ctxs = WithValue(@, ctx, TraceKey,
                                     Carrier(w.ctxs[traceCtx].val.TraceID, r.id)),
                         !.issued = Append(@, [by |-> "StartSpan",
                                               trace |-> "", span |-> r.id])]
            IN  Returned(w2, Len(w2.ctxs), NilTC, NoErr)

\* (mutant) the new span id is written into the TraceContext that ctx holds.
StartSpanInPlace(w, ctx, operation, r) ==
    LET traceCtx == GetTraceFromContext(w.ctxs, ctx)
    IN  IF traceCtx = 0 THEN Returned(w, ctx, NilTC, ErrNoTrace)
        ELSE
        LET s == sendSpan(w, [TraceID |-> w.ctxs[traceCtx].val.TraceID,
                              ParentID |-> w.ctxs[traceCtx].val.SpanID,
                              Operation |-> operation], r)
        IN  IF s.err # NoErr THEN Returned(s.w, ctx, NilTC, s.err)
            ELSE IF r.id = NoId THEN Panicked(s.w)    \* resp["id"].(string)
            ELSE Returned([s.w EXCEPT !.ctxs[traceCtx].val.SpanID = r.id],
                          ctx, NilTC, NoErr)

StartSpan(w, ctx, operation, r) ==
    LET traceCtx == GetTraceFromContext(w.ctxs, ctx)
    IN  IF traceCtx = 0 THEN Returned(w, ctx, NilTC, ErrNoTrace)
        ELSE
        LET s == sendSpan(w, [TraceID |-> w.ctxs[traceCtx].val.TraceID,
                              ParentID |-> w.ctxs[traceCtx].val.SpanID,
                              Operation |-> operation], r)
        IN  IF s.err # NoErr THEN Returned(s.w, ctx, NilTC, s.err)
            ELSE IF r.id = NoId THEN Panicked(s.w)    \* resp["id"].(string)
            ELSE
            LET w2 == [s.w EXCEPT
                         !.ctxs = WithValue(@, ctx, TraceKey,
                                     Carrier(w.ctxs[traceCtx].val.TraceID, r.id)),
                         !.issued = Append(@, [by |-> "StartSpan",
                                               trace |-> "", span |-> r.id])]
            IN  Returned(w2, Len(w2.ctxs), NilTC, NoErr)

\* (mutant) the span is ended under the trace id.
FinishSpanByTraceID(w, ctx, r) ==
    LET traceCtx == GetTraceFromContext(w.ctxs, ctx)
    IN  IF traceCtx = 0 THEN [w |-> w, err |-> ErrNoTrace]
        ELSE endSpan(w, w.ctxs[traceCtx].val.TraceID, r)

\* (mutant) a finished span is struck from the TraceContext.
FinishSpanForgets(w, ctx, r) ==
    LET traceCtx == GetTraceFromContext(w.ctxs, ctx)
    IN  IF traceCtx = 0 THEN [w |-> w, err |-> ErrNoTrace]
        ELSE LET e == endSpan(w, w.ctxs[traceCtx].val.SpanID, r)
             IN  [w |-> [e.w EXCEPT !.ctxs[traceCtx].val.SpanID = ""], err |-> e.err]

FinishSpan(w, ctx, r) ==
    LET traceCtx == GetTraceFromContext(w.ctxs, ctx)
    IN  IF traceCtx = 0 THEN [w |-> w, err |-> ErrNoTrace]
        ELSE endSpan(w, w.ctxs[traceCtx].val.SpanID, r)

\* (mutant) the trace's current span is ended together with the trace.
FinishTraceEndsSpan(w, ctx, r) ==
    LET traceCtx == GetTraceFromContext(w.ctxs, ctx)
    IN  IF traceCtx = 0 THEN [w |-> w, err |-> ErrNoTrace]
        ELSE endTrace(endSpan(w, w.ctxs[traceCtx].val.SpanID, r).w,
                      w.ctxs[traceCtx].val.TraceID, r)

FinishTrace(w, ctx, r) ==
    LET traceCtx == GetTraceFromContext(w.ctxs, ctx)
    IN  IF traceCtx = 0 THEN [w |-> w, err |-> ErrNoTrace]
        ELSE endTrace(w, w.ctxs[traceCtx].val.TraceID, r)

\* ---------------------------------------------------------------- logging
\* (mutant) the entry gets the trace id only.
LogTraceOnly(w, ctx, level, message, metadata, resp) ==
    LET traceCtx == GetTraceFromContext(w.ctxs, ctx)
        entry == [EmptyBody EXCEPT !.service_name = serviceName, !.level = level,
                                   !.message = message, !.meta = metadata]
        entry2 == IF traceCtx # 0
                  THEN [entry EXCEPT !.trace_id = w.ctxs[traceCtx].val.TraceID]
                  ELSE entry
    IN  sendLog(w, entry2, resp)

Log(w, ctx, level, message, metadata, resp) ==
    LET traceCtx == GetTraceFromContext(w.ctxs, ctx)
        entry == [EmptyBody EXCEPT !.service_name = serviceName, !.level = level,
                                   !.message = message, !.meta = metadata]
        entry2 == IF traceCtx # 0
                  THEN [entry EXCEPT !.trace_id = w.ctxs[traceCtx].val.TraceID,
                                     !.span_id = w.ctxs[traceCtx].val.SpanID]
                  ELSE entry
    IN  sendLog(w, entry2, resp)

\* metadata ...map: the first one when given, a nil map otherwise.
LogInfo(w, ctx, message, metadata, resp) ==
    Log(w, ctx, "INFO", message,
        IF Len(metadata) > 0 THEN metadata[1] ELSE EmptyMap, resp)

\* The variadic arguments of LogError: error values and metadata maps.
ErrArg(text) == [type |-> "error", text |-> text, map |-> EmptyMap]
MapArg(m) == [type |-> "map", text |-> "", map |-> m]

\* (mutant) the loop ends at the first error value.
RECURSIVE ScanArgsStopAtError(_, _)
ScanArgsStopAtError(args, acc) ==
    IF args = <<>> THEN acc
    ELSE LET v == Head(args)
         IN  IF v.type = "error"
             THEN [acc EXCEPT !.hasErr = TRUE, !.err = v.text]
             ELSE IF v.type = "map"
             THEN ScanArgsStopAtError(Tail(args), [acc EXCEPT !.metadata = v.map])
             ELSE ScanArgsStopAtError(Tail(args), acc)

\* The loop over errAndMetadata: every error assigns err, every map assigns
\* metadata, in argument order.
RECURSIVE ScanArgs(_, _)
ScanArgs(args, acc) ==
    IF args = <<>> THEN acc
    ELSE LET v == Head(args)
             acc1 == IF v.type = "error"
                     THEN [acc EXCEPT !.hasErr = TRUE, !.err = v.text]
                     ELSE IF v.type = "map"
                     THEN [acc EXCEPT !.metadata = v.map]
                     ELSE acc
         IN  ScanArgs(Tail(args), acc1)

\* (mutant) the error's text is not put into the metadata.
LogErrorNoInject(w, ctx, message, errAndMetadata, resp) ==
    LET found == ScanArgs(errAndMetadata,
                          [hasErr |-> FALSE, err |-> "", metadata |-> EmptyMap])
        r == Log(w, ctx, "ERROR", message, found.metadata, resp)
    IN  [w |-> r.w, err |-> r.err, args |-> errAndMetadata]

\* metadata = v makes metadata the caller's map itself (a Go map is a
\* reference), so metadata["error"] = err.Error() is a write to the map the
\* caller passed: the last map in argument order.  args: the caller's
\* arguments as they are when LogError has returned.
LastMap(args) ==
    IF \E i \in 1 .. Len(args) : args[i].type = "map"
    THEN CHOOSE i \in 1 .. Len(args) :
             /\ args[i].type = "map"
             /\ \A j \in 1 .. Len(args) : args[j].type = "map" => j <= i
    ELSE 0

LogError(w, ctx, message, errAndMetadata, resp) ==
    LET found == ScanArgs(errAndMetadata,
                          [hasErr |-> FALSE, err |-> "", metadata |-> EmptyMap])
        metadata == IF found.hasErr
                    THEN [found.metadata EXCEPT !["error"] = StrVal(found.err)]
                    ELSE found.metadata
        m == LastMap(errAndMetadata)
        r == Log(w, ctx, "ERROR", message, metadata, resp)
    IN  [w |-> r.w, err |-> r.err,
         args |-> IF m # 0 THEN [errAndMetadata EXCEPT ![m].map = metadata]
                  ELSE errAndMetadata]

\* ---------------------------------------------------------------- metrics
\* (mutant) the client's service name replaces the metric's own.
SendMetricOwnName(w, metric, resp) ==
    sendMetric(w, [metric EXCEPT !.ServiceName = serviceName], resp)

SendMetric(w, metric, resp) ==
    LET m == IF metric.ServiceName = ""
             THEN [metric EXCEPT !.ServiceName = serviceName]
             ELSE metric
    IN  sendMetric(w, m, resp)

\* ------------------------------------------------------------- Instrument
\* fn is the wrapped function.  A leaf returns fn.err; a function whose body
\* is "return g(ctx)" for an instrumented g has g's call in fn.inner:
\* [operation, fn, duration, rs].
\* rs = <<span start, completion log, span finish, finish-failure log>>.
Leaf(e) == [err |-> e, inner |-> <<>>]
Calls(operation, fn, duration, rs) ==
    [err |-> NoErr,
     inner |-> <<[operation |-> operation, fn |-> fn, duration |-> duration, rs |-> rs]>>]

RECURSIVE Instrument(_, _, _, _, _, _)

\* fn(spanCtx)
RunFn(w, fn, ctx) ==
    IF fn.inner = <<>> THEN [w |-> w, err |-> fn.err, panic |-> FALSE]
    ELSE LET g == fn.inner[1]
             r == Instrument(w, ctx, g.operation, g.fn, g.duration, g.rs)
         IN  [w |-> r.w, err |-> r.err, panic |-> r.panic]

\* fnFrom .. fnTo: the requests sent while fn ran.  A panic in fn skips the
\* completion log; the deferred function still runs.
Instrument(w, ctx, operation, fn, duration, rs) ==
    LET s == StartSpan(w, ctx, operation, rs[1])
    IN  IF s.panic
        THEN [w |-> s.w, err |-> NoErr, panic |-> TRUE,
              fnCalls |-> 0, fnCtx |-> 0, started |-> FALSE,
              fnFrom |-> 0, fnTo |-> 0]
        ELSE
        LET spanCtx == IF s.err # NoErr THEN ctx ELSE s.ctx
            f == RunFn(s.w, fn, spanCtx)
            fnErr == f.err
            done == IF f.panic THEN [w |-> f.w, err |-> NoErr]
                    ELSE IF fnErr # NoErr
                    THEN LogError(f.w, spanCtx, <<"Operation failed: %s", operation>>,
                             <<ErrArg(fnErr),
                               MapArg([EmptyMap EXCEPT !["operation"] = StrVal(operation),
                                                       !["duration_ms"] = IntVal(duration)])>>,
                             rs[2])
                    ELSE LogInfo(f.w, spanCtx, <<"Operation completed: %s", operation>>,
                             <<[EmptyMap EXCEPT !["operation"] = StrVal(operation),
                                                !["duration_ms"] = IntVal(duration)]>>,
                             rs[2])
            \* the deferred function
            fin == FinishSpan(done.w, spanCtx, rs[3])
            w3 == IF fin.err # NoErr
                  THEN LogError(fin.w, spanCtx, <<"Failed to finish span">>,
                           <<ErrArg(fin.err),
                             MapArg([EmptyMap EXCEPT !["operation"] = StrVal(operation)])>>,
                           rs[4]).w
                  ELSE fin.w
        IN  [w |-> w3, err |-> fnErr, panic |-> f.panic,
             fnCalls |-> 1, fnCtx |-> spanCtx, started |-> s.err = NoErr,
             fnFrom |-> Len(s.w.reqs) + 1, fnTo |-> Len(f.w.reqs)]

\* ------------------------------------------------------------------ state
VARIABLES
    ctxs,     \* the contexts created so far; ctxs[1] is context.Background()
    issued,   \* per context: the ids the collector returned when it was made
    reqs,     \* the requests the most recent call sent, in order
    ret,      \* the most recent call: its arguments and what it returned
    tasks,    \* per goroutine: the call it is in and how far that call has got
    done,     \* the contexts that have been cancelled
    inbound   \* the HTTP request an adapter of the client is wrapped around

vars == <<ctxs, issued, reqs, ret, tasks, done, inbound>>

\* A world is what one client call can change: the contexts, the ids issued
\* for them, and the requests the running call has sent so far.
World == [ctxs |-> ctxs, issued |-> issued, reqs |-> <<>>]

\* had: what ctx.Value("go-insight-trace") was when the call was made;
\* input: the metadata, the variadic arguments or the metric it was given;
\* after: the variadic arguments as the caller finds them after the call.
NoCall == [op |-> "none", ctx |-> 0, had |-> NilVal, newCtx |-> 0, tc |-> NilTC,
           err |-> NoErr, panic |-> FALSE, fnErr |-> NoErr, fnCalls |-> 0,
           fnCtx |-> 0, started |-> FALSE, duration |-> 0,
           fnFrom |-> 0, fnTo |-> 0, input |-> <<>>, after |-> <<>>]

Call(op, c) == [NoCall EXCEPT !.op = op, !.ctx = c, !.had = Value(ctxs, c, TraceKey)]

Init ==
    /\ ctxs = <<Background>>
    /\ issued = <<NoIssue>>
    /\ reqs = <<>>
    /\ ret = NoCall
    /\ tasks = <<>>
    /\ done = {}
    /\ inbound = <<>>

\* A call is made by a caller that is not inside another call, and its
\* requests and result stay on record until the caller goes on.
Idle == ret.op = "none"

Store(w, r) ==
    /\ ctxs' = w.ctxs
    /\ issued' = w.issued
    /\ reqs' = w.reqs
    /\ ret' = r
    /\ UNCHANGED <<tasks, done, inbound>>

Commit(w, r) == Len(w.ctxs) <= MaxCtx /\ Store(w, r)

Ctxs == 1 .. Len(ctxs)

\* A response nobody asked for is not a choice: it is fixed to NetFail.
Sent(w, ep) == \E i \in 1 .. Len(w.reqs) : w.reqs[i].ep = ep
Unused(r) == r = NetFail

StartTraceCall(C, R1, R2) ==
    Idle /\ \E c \in C, o \in Operations, r1 \in R1, r2 \in R2 :
        \E res \in {StartTrace(World, c, o, r1, r2)} :
            /\ Sent(res.w, "/spans") \/ Unused(r2)
            /\ Commit(res.w, [Call("StartTrace", c) EXCEPT !.newCtx = res.ctx, !.tc = res.tc, !.err = res.err,
                              !.panic = res.panic])

DoStartTrace == StartTraceCall(Ctxs, CreateResps, CreateResps)

StartSpanCall(C, R) ==
    Idle /\ \E c \in C, o \in Operations, r \in R :
        \E res \in {StartSpan(World, c, o, r)} :
            /\ Sent(res.w, "/spans") \/ Unused(r)
            /\ Commit(res.w, [Call("StartSpan", c) EXCEPT !.newCtx = res.ctx, !.err = res.err,
                              !.panic = res.panic])

DoStartSpan == StartSpanCall(Ctxs, CreateResps)

FinishSpanCall(C, R) ==
    Idle /\ \E c \in C, r \in R :
        \E res \in {FinishSpan(World, c, r)} :
            /\ Sent(res.w, "/spans/%s/end") \/ Unused(r)
            /\ Commit(res.w, [Call("FinishSpan", c) EXCEPT !.err = res.err])

DoFinishSpan == FinishSpanCall(Ctxs, PlainResps)

FinishTraceCall(C, R) ==
    Idle /\ \E c \in C, r \in R :
        \E res \in {FinishTrace(World, c, r)} :
            /\ Sent(res.w, "/traces/%s/end") \/ Unused(r)
            /\ Commit(res.w, [Call("FinishTrace", c) EXCEPT !.err = res.err])

DoFinishTrace == FinishTraceCall(Ctxs, PlainResps)

\* Other code of the application derives a context with a value of its own.
WithValueCall(C) ==
    Idle /\ \E c \in C, k \in {TraceKey, "user"} :
        LET w == [World EXCEPT !.ctxs = WithValue(@, c, k,
                                   [type |-> "string", TraceID |-> "", SpanID |-> ""]),
                               !.issued = Append(@, NoIssue)]
        IN  Commit(w, [Call("WithValue", c) EXCEPT !.newCtx = Len(w.ctxs)])

DoWithValue == WithValueCall(Ctxs)

\* The caller has looked at the result and goes on with the contexts it has.
Resume ==
    /\ ~Idle
    /\ ret' = NoCall
    /\ reqs' = <<>>
    /\ UNCHANGED <<ctxs, issued, tasks, done, inbound>>

Next ==
    \/ DoStartTrace
    \/ DoStartSpan
    \/ DoFinishSpan
    \/ DoFinishTrace
    \/ DoWithValue
    \/ Resume

Spec == Init /\ [][Next]_vars

\* ------------------------------------------- the caller and its Carriers
\* traceCtx := goinsight.GetTraceFromContext(ctx): the caller is handed the
\* pointer the context holds.
GetTraceCall(C) ==
    Idle /\ \E c \in C :
        \E p \in {GetTraceFromContext(ctxs, c)} :
            Store(World, [Call("GetTraceFromContext", c) EXCEPT
                            !.tc = IF p = 0 THEN NilTC
                                   ELSE [ptr |-> p, TraceID |-> ctxs[p].val.TraceID,
                                         SpanID |-> ctxs[p].val.SpanID]])

DoGetTrace == GetTraceCall(Ctxs)

\* An id of the caller's own.
CallerIds == {"x"}

\* traceCtx.TraceID = "x" / traceCtx.SpanID = "x": the fields of TraceContext
\* are exported and the caller holds a pointer, the one StartTrace returned
\* or the one GetTraceFromContext read.  The object written is the object
\* the context holds (StartTrace's partial Carrier is in no context).
WriteCarrier ==
    /\ ret.op \in {"StartTrace", "GetTraceFromContext"}
    /\ ret.tc.ptr # 0
    /\ \E f \in {"TraceID", "SpanID"}, x \in CallerIds :
          /\ ret.tc[f] # x
          /\ ret' = [ret EXCEPT !.tc[f] = x]
          /\ ctxs' = IF ret.tc.ptr > 0
                     THEN [ctxs EXCEPT ![ret.tc.ptr].val[f] = x]
                     ELSE ctxs
    /\ UNCHANGED <<issued, reqs, tasks, done, inbound>>

\* The traces of this caller: created by the collector, with a root span or
\* (partial Carrier) without one.
CarrierTrace ==
    StartTraceCall(Ctxs, {OkId("a")}, {NetFail, OkId("a"), OkId("b")})

CarrierSpan == StartSpanCall(Ctxs, {NetFail, OkId("a"), OkId("b")})

NextCarrier ==
    \/ CarrierTrace
    \/ CarrierSpan
    \/ DoFinishSpan
    \/ DoGetTrace
    \/ WriteCarrier
    \/ Resume

SpecCarrier == Init /\ [][NextCarrier]_vars

\* --------------------------------------------- the Instrument wrapper alone
\* The caller of an instrumented function holds the background context, a
\* context with a foreign value, or the context of a trace it started; the
\* instrumented function is then called on any context, also on the ones
\* earlier calls of it handed to fn.
FnErrs == {NoErr, "boom"}
Durations == {0, 7}

Logs(w) == {i \in 1 .. Len(w.reqs) : w.reqs[i].ep = "/logs"}

DoInstrument ==
    Idle /\ \E c \in Ctxs, o \in Operations, e \in FnErrs, d \in Durations,
       r1 \in CreateResps, r2 \in PlainResps, r3 \in PlainResps, r4 \in PlainResps :
        \E res \in {Instrument(World, c, o, Leaf(e), d, <<r1, r2, r3, r4>>)} :
            /\ Sent(res.w, "/spans") \/ Unused(r1)
            /\ Cardinality(Logs(res.w)) >= 1 \/ Unused(r2)
            /\ Sent(res.w, "/spans/%s/end") \/ Unused(r3)
            /\ Cardinality(Logs(res.w)) >= 2 \/ Unused(r4)
            /\ Commit(res.w, [Call("Instrument", c) EXCEPT !.err = res.err, !.panic = res.panic,
                              !.fnErr = e, !.fnCalls = res.fnCalls,
                              !.fnCtx = res.fnCtx, !.started = res.started,
                              !.duration = d])

SetupTrace ==
    /\ Len(ctxs) = 1
    /\ StartTraceCall({1}, {OkId("a")}, {OkId(i) : i \in IdSet})

SetupWithValue ==
    /\ Len(ctxs) = 1
    /\ WithValueCall({1})

NextInstr ==
    \/ SetupTrace
    \/ SetupWithValue
    \/ DoInstrument
    \/ Resume

SpecInstr == Init /\ [][NextInstr]_vars

\* -------------------------------------------------- logs and metrics alone
\* The caller holds the background context, a context with a foreign value
\* or the context of a trace it started, and emits logs and metrics.
Levels == {"INFO", "WARN", "ERROR", "DEBUG"}
Message == <<"msg">>
Metas == {EmptyMap,
          [EmptyMap EXCEPT !["a"] = StrVal("x")],
          [EmptyMap EXCEPT !["a"] = IntVal(1), !["error"] = StrVal("old")],
          [EmptyMap EXCEPT !["a"] = FuncVal]}

\* What a caller may pass for errAndMetadata ...interface{}: error values,
\* maps, and values of other types.
OtherArg == [type |-> "string", text |-> "s", map |-> EmptyMap]
ArgVals == {ErrArg("e1"), ErrArg("e2"), OtherArg} \cup {MapArg(m) : m \in Metas}
ArgSeqs == UNION {[1 .. n -> ArgVals] : n \in 0 .. MaxArgs}

Metrics ==
    [ServiceName : {"", serviceName, "other"}, Path : {"/", "/x"},
     StatusCode : {200, 500},
     Metadata : {EmptyMap, [EmptyMap EXCEPT !["a"] = FuncVal]}]

LogCall(C, R) ==
    Idle /\ \E c \in C, level \in Levels, m \in Metas, r \in R :
        \E res \in {Log(World, c, level, Message, m, r)} :
            /\ Sent(res.w, "/logs") \/ Unused(r)
            /\ Store(res.w, [Call("Log", c) EXCEPT !.err = res.err, !.input = m])

DoLog == LogCall(Ctxs, PlainResps)

DoLogError ==
    Idle /\ \E c \in Ctxs, args \in ArgSeqs, r \in PlainResps :
        \E res \in {LogError(World, c, Message, args, r)} :
            /\ Sent(res.w, "/logs") \/ Unused(r)
            /\ Store(res.w, [Call("LogError", c) EXCEPT !.err = res.err, !.input = args,
                                                         !.after = res.args])

SendMetricCall(R) ==
    Idle /\ \E m \in Metrics, r \in R :
        \E res \in {SendMetric(World, m, r)} :
            /\ Sent(res.w, "/metrics") \/ Unused(r)
            /\ Store(res.w, [Call("SendMetric", 0) EXCEPT !.err = res.err, !.input = m])

DoSendMetric == SendMetricCall(PlainResps)

NextEmit ==
    \/ SetupTrace
    \/ SetupWithValue
    \/ DoLog
    \/ DoLogError
    \/ DoSendMetric
    \/ Resume

SpecEmit == Init /\ [][NextEmit]_vars

\* ------------------------------------------- every operation on the wire
\* Each operation gets an answer with a status at or next to the limits of
\* the 2xx range (101, a status the HTTP client hands on, below it), and a
\* body that is JSON with a string id, JSON without one, or no JSON.
WireStatuses == {101, 200, 299, 300, 500}
WireResps ==
    {r \in [status : WireStatuses, json : BOOLEAN, id : {NoId, "a"}] :
        r.id # NoId => r.json}

WireLog == LogCall(Ctxs, WireResps)
WireSendMetric == SendMetricCall(WireResps)
WireStartTrace == StartTraceCall({1}, WireResps, WireResps \cup {NetFail})
WireStartSpan == StartSpanCall(Ctxs, WireResps)
WireFinishSpan == FinishSpanCall(Ctxs, WireResps)
WireFinishTrace == FinishTraceCall(Ctxs, WireResps)

NextWire ==
    \/ WireLog
    \/ WireSendMetric
    \/ WireStartTrace
    \/ WireStartSpan
    \/ WireFinishSpan
    \/ WireFinishTrace
    \/ Resume

SpecWire == Init /\ [][NextWire]_vars

\* ------------------------------------------- instrumented functions nested
\* g1 wraps a function that calls g2 on the context it received and returns
\* what g2 returns; g2 wraps a leaf.  g1 is called on the background context
\* or on the context of a trace the caller started.
OuterOp == "process_batch"
InnerOp == "process_item"

\* The requests of a nested call that g2 sent, and the ones g1 sent itself.
\* The collector's answers to the completion logs; the logs that report a
\* failed finish are answered with 200.
LogResps == {Http500, OkGarbage}

Inner(r, w) == {i \in 1 .. Len(w.reqs) : i >= r.fnFrom /\ i <= r.fnTo}
Outer(r, w) == (1 .. Len(w.reqs)) \ Inner(r, w)
Count(w, I, ep) == Cardinality({i \in I : w.reqs[i].ep = ep})

DoNested ==
    Idle /\ Len(ctxs) <= 2 /\
    \E c \in Ctxs, e \in FnErrs,
       r1 \in CreateResps, r2 \in LogResps, r3 \in PlainResps,
       q1 \in CreateResps, q2 \in LogResps, q3 \in PlainResps :
        \E res \in {Instrument(World, c, OuterOp,
                                Calls(InnerOp, Leaf(e), 0, <<q1, q2, q3, OkGarbage>>),
                                0, <<r1, r2, r3, OkGarbage>>)} :
        \E in \in {Inner(res, res.w)}, out \in {Outer(res, res.w)} :
            /\ Count(res.w, out, "/spans") >= 1 \/ Unused(r1)
            /\ Count(res.w, out, "/logs") >= 1 \/ r2 = OkGarbage
            /\ Count(res.w, out, "/spans/%s/end") >= 1 \/ Unused(r3)
            /\ Count(res.w, in, "/spans") >= 1 \/ Unused(q1)
            /\ Count(res.w, in, "/logs") >= 1 \/ q2 = OkGarbage
            /\ Count(res.w, in, "/spans/%s/end") >= 1 \/ Unused(q3)
            /\ Store(res.w, [Call("Nested", c) EXCEPT !.err = res.err, !.panic = res.panic,
                              !.fnErr = e, !.fnCalls = res.fnCalls,
                              !.fnCtx = res.fnCtx, !.started = res.started,
                              !.fnFrom = res.fnFrom, !.fnTo = res.fnTo])

NextNested ==
    \/ SetupTrace
    \/ DoNested
    \/ Resume

SpecNested == Init /\ [][NextNested]_vars

\* ------------------------------------ calls seen one round trip at a time
\* Goroutines of the application call the client on contexts that descend
\* from one request's context.  A call is followed through the places where
\* it can be observed from outside: c.client.Do(req) is entered (the request
\* is on the wire), c.client.Do(req) comes back (with the collector's answer
\* or with an error: no connection, or the client's timeout), and the
\* operation returns.  What the operation does between these places is what
\* the operators above compute from the answers it has received so far.
Workers == {"t1", "t2"}

NoMetric == [ServiceName |-> "", Path |-> "/", StatusCode |-> 200, Metadata |-> EmptyMap]
NoArgs == [op |-> "none", ctx |-> 0, operation |-> "", level |-> "",
           meta |-> EmptyMap, metric |-> NoMetric]

\* sent: the requests handed to c.client.Do, wire saying whether the request
\* left the process; got: what Do returned for each; cut: Do gave up because
\* a context was cancelled; newCtx, tc, err: what the call returned;
\* doneAtCall, doneInFlight: the call's context was cancelled before the
\* call, while a request of the call was on the wire; past: the calls the
\* goroutine made before this one.
NoTask == [pc |-> "idle", call |-> NoArgs, sent |-> <<>>, got |-> <<>>,
           err |-> NoErr, panic |-> FALSE, newCtx |-> 0, tc |-> NilTC,
           cut |-> FALSE, doneAtCall |-> FALSE, doneInFlight |-> FALSE,
           past |-> <<>>]

\* ctx.Done() is closed: ctx or a context it descends from was cancelled.
RECURSIVE Done(_, _, _)
Done(cs, d, c) == c # 0 /\ (c \in d \/ Done(cs, d, cs[c].parent))

\* The answer to the k-th request; NetFail stands for one not yet received.
Pad(rs, k) == IF k <= Len(rs) THEN rs[k] ELSE NetFail

Eval(w, call, rs) ==
    CASE call.op = "StartTrace" ->
             StartTrace(w, call.ctx, call.operation, Pad(rs, 1), Pad(rs, 2))
      [] call.op = "StartSpan" -> StartSpan(w, call.ctx, call.operation, Pad(rs, 1))
      [] call.op = "FinishSpan" -> FinishSpan(w, call.ctx, Pad(rs, 1))
      [] call.op = "FinishTrace" -> FinishTrace(w, call.ctx, Pad(rs, 1))
      [] call.op = "Log" ->
             Log(w, call.ctx, call.level, Message, call.meta, Pad(rs, 1))
      [] call.op = "LogInfo" -> LogInfo(w, call.ctx, Message, <<call.meta>>, Pad(rs, 1))
      [] call.op = "SendMetric" -> SendMetric(w, call.metric, Pad(rs, 1))

\* The call as far as the answers rs take it: the requests it has made, and
\* its result if it makes no further one.
Outcome(w, call, rs) ==
    LET r == Eval(w, call, rs)
    IN  [w |-> r.w, err |-> r.err,
         panic |-> IF "panic" \in DOMAIN r THEN r.panic ELSE FALSE,
         ctx |-> IF "ctx" \in DOMAIN r THEN r.ctx ELSE call.ctx,
         tc |-> IF "tc" \in DOMAIN r THEN r.tc ELSE NilTC]

Creates(ep) == ep \in {"/traces", "/spans"}

\* The calls a goroutine makes on the contexts C.
WorkerCalls(C) ==
    {[NoArgs EXCEPT !.op = op, !.ctx = c, !.operation = "op"] :
        op \in {"StartSpan", "FinishSpan", "FinishTrace", "LogInfo"}, c \in C}
    \cup {[NoArgs EXCEPT !.op = "StartTrace", !.ctx = 1, !.operation = "op"]}
    \cup {[NoArgs EXCEPT !.op = "Log", !.ctx = c, !.level = "WARN", !.meta = m] :
             c \in C, m \in {EmptyMap, [EmptyMap EXCEPT !["a"] = FuncVal]}}
    \cup {[NoArgs EXCEPT !.op = "SendMetric"]}

\* The contexts the goroutines were handed: the request's own and the one
\* of the trace started on it.
Handed == {1, 2}

\* A goroutine calls an operation of the client.
Begin(t) ==
    /\ Idle
    /\ tasks[t].pc = "idle"
    /\ \E call \in WorkerCalls(Handed) :
           tasks' = [tasks EXCEPT ![t] =
                        [NoTask EXCEPT !.pc = "running", !.call = call,
                                       !.doneAtCall = Done(ctxs, done, call.ctx)]]
    /\ UNCHANGED <<ctxs, issued, reqs, ret, done, inbound>>

\* req built, resp, err := c.client.Do(req) is entered.  A request whose own
\* context is cancelled does not leave the process: Do returns an error.
EnterDo(t) ==
    /\ Idle
    /\ tasks[t].pc = "running"
    /\ \E o \in {Outcome(World, tasks[t].call, tasks[t].got)} :
         \E n \in {Len(tasks[t].got) + 1} :
           /\ Len(o.w.reqs) >= n
           /\ \E q \in {[ep |-> o.w.reqs[n].ep, id |-> o.w.reqs[n].id,
                           body |-> o.w.reqs[n].body, wire |-> TRUE]} :
               IF Done(ctxs, done, NewRequest(tasks[t].call.ctx))
               THEN tasks' = [tasks EXCEPT
                                ![t].sent = Append(@, [q EXCEPT !.wire = FALSE]),
                                ![t].got = Append(@, NetFail),
                                ![t].cut = TRUE]
               ELSE tasks' = [tasks EXCEPT
                                ![t].sent = Append(@, q),
                                ![t].pc = "waiting"]
    /\ UNCHANGED <<ctxs, issued, reqs, ret, done, inbound>>
\* c.client.Do(req) comes back: with an answer of the collector, or with an
\* error (NetFail) when the connection failed or the client's timeout ran
\* out.  A request whose own context is cancelled is given up with an error.
ComeBack(t, RC, RP) ==
    /\ tasks[t].pc = "waiting"
    /\ \E cut \in {Done(ctxs, done, NewRequest(tasks[t].call.ctx))} :
         \E r \in IF cut THEN {NetFail}
                   ELSE IF Creates(tasks[t].sent[Len(tasks[t].sent)].ep)
                        THEN RC ELSE RP :
           tasks' = [tasks EXCEPT ![t].got = Append(@, r),
                                  ![t].cut = @ \/ cut,
                                  ![t].pc = "running"]
    /\ UNCHANGED <<ctxs, issued, reqs, ret, done, inbound>>

LeaveDo(t) == ComeBack(t, CreateResps, PlainResps)

\* (mutant) the operation does not wait for c.client.Do to come back.
ReturnEarly(t) ==
    /\ Idle
    /\ tasks[t].pc \in {"running", "waiting"}
    /\ \E o \in {Outcome(World, tasks[t].call, tasks[t].got)} :
           /\ tasks[t].pc = "waiting" \/ Len(o.w.reqs) = Len(tasks[t].got)
           /\ Len(o.w.ctxs) <= MaxCtx + 1
           /\ ctxs' = o.w.ctxs
           /\ issued' = o.w.issued
           /\ tasks' = [tasks EXCEPT ![t].pc = "returned", ![t].err = o.err,
                                      ![t].panic = o.panic,
                                      ![t].newCtx = IF o.panic THEN 0 ELSE o.ctx,
                                      ![t].tc = o.tc]
    /\ UNCHANGED <<reqs, ret, done, inbound>>

\* The operation makes no further request and returns; the context it made,
\* if any, exists from here on.
Return(t) ==
    /\ Idle
    /\ tasks[t].pc = "running"
    /\ \E o \in {Outcome(World, tasks[t].call, tasks[t].got)} :
           /\ Len(o.w.reqs) = Len(tasks[t].got)
           /\ Len(o.w.ctxs) <= MaxCtx + 1
           /\ ctxs' = o.w.ctxs
           /\ issued' = o.w.issued
           /\ tasks' = [tasks EXCEPT ![t].pc = "returned", ![t].err = o.err,
                                      ![t].panic = o.panic,
                                      ![t].newCtx = IF o.panic THEN 0 ELSE o.ctx,
                                      ![t].tc = o.tc]
    /\ UNCHANGED <<reqs, ret, done, inbound>>

\* The request whose context the goroutines hold ends, or its client goes
\* away: the server cancels the request's context.
Cancel ==
    /\ done = {}
    /\ done' = {1}
    /\ tasks' = [t \in DOMAIN tasks |->
                   [tasks[t] EXCEPT !.doneInFlight = @ \/ tasks[t].pc = "waiting"]]
    /\ UNCHANGED <<ctxs, issued, reqs, ret, inbound>>

\* The context of a request: it is cancelled when the request ends.
RequestContext == [parent |-> 0, key |-> "<request>", val |-> NilVal]

\* The handler of the request has started a trace on the request's context
\* and hands both contexts to the goroutines it starts.
InitWorkers ==
    /\ \E res \in {StartTrace([ctxs |-> <<RequestContext>>, issued |-> <<NoIssue>>,
                                reqs |-> <<>>], 1, "op", OkId("a"), OkId("b"))} :
           ctxs = res.w.ctxs /\ issued = res.w.issued
    /\ reqs = <<>>
    /\ ret = NoCall
    /\ tasks = [t \in Workers |-> NoTask]
    /\ done = {}
    /\ inbound = <<>>

NextWorkers ==
    \/ Cancel
    \/ \E t \in Workers : Begin(t)
    \/ \E t \in Workers : EnterDo(t)
    \/ \E t \in Workers : LeaveDo(t)
    \/ \E t \in Workers : Return(t)

SpecWorkers == InitWorkers /\ [][NextWorkers]_vars

\* ------------------------------------------------ the framework adapters
\* GinMiddleware and EchoMiddleware around one inbound request.  The request
\* is served by the goroutine "serve" (the adapter and, inside it, the
\* handler); the adapter starts the goroutines "metric", "log" and "finish".
\* obj is the framework's context object of the request (ginCtx, echoCtx):
\* the framework keeps these objects in a pool and, once the request has been
\* served, hands the object to a later request.
Frameworks == {"gin", "echo"}
Goroutines == {"serve", "metric", "log", "finish"}

\* The statuses a handler writes, next to the limits of the log levels; a
\* handler of Echo may also write nothing and return nil (the response is
\* 200) or return an error, which Echo turns into the response after the
\* adapter has returned it.
Statuses == {299, 300, 399, 400}
HandlerError == "handler error"
ErrorStatuses == {404}
Unwritten(f) == IF f = "gin" THEN 200 ELSE 0
HandlerOutcomes(f) ==
    {[wrote |-> st, err |-> NoErr, status |-> st] : st \in Statuses}
    \cup (IF f = "echo"
          THEN {[wrote |-> 0, err |-> NoErr, status |-> 200]}
               \cup {[wrote |-> 0, err |-> HandlerError, status |-> st] :
                        st \in ErrorStatuses}
          ELSE {})

\* The later request the object is handed to.
LaterStatuses == {200}

NewInbound(f) ==
    [framework |-> f, pc |-> "entry",
     obj |-> [path |-> "/one", ctx |-> 1, store |-> NilTC, status |-> Unwritten(f)],
     traceCtx |-> NilTC, err |-> NoErr, statusCode |-> 0,
     saw |-> [runs |-> 0, ctx |-> 0, store |-> NilTC],
     resp |-> [status |-> 0, err |-> NoErr],
     recycled |-> FALSE]

\* The collector's answers to the adapter's requests.
AdapterCreateResps == {NetFail, OkNoId, OkId("a")}
AdapterPlainResps == {NetFail, OkGarbage}

LevelOf(status) ==
    IF status >= 400 THEN "ERROR" ELSE IF status >= 300 THEN "WARN" ELSE "INFO"

\* ctx, traceCtx, err := c.StartTrace(<request>.Context(), "METHOD PATH")
Entry ==
    /\ inbound.pc = "entry"
    /\ tasks' = [tasks EXCEPT !["serve"] =
                    [NoTask EXCEPT !.pc = "running",
                        !.call = [NoArgs EXCEPT !.op = "StartTrace",
                                                !.ctx = inbound.obj.ctx,
                                                !.operation = "op"],
                        !.doneAtCall = Done(ctxs, done, inbound.obj.ctx)]]
    /\ inbound' = [inbound EXCEPT !.pc = "starting"]
    /\ UNCHANGED <<ctxs, issued, reqs, ret, done>>

Answered(g) == ComeBack(g, AdapterCreateResps, AdapterPlainResps)

\* StartTrace has returned: if err == nil the request gets the new context
\* and the store gets traceCtx.
Attach ==
    /\ inbound.pc = "starting"
    /\ tasks["serve"].pc = "returned"
    /\ ~tasks["serve"].panic
    /\ \E k \in {tasks["serve"]} :
          inbound' = [inbound EXCEPT
                        !.pc = "handler", !.traceCtx = k.tc, !.err = k.err,
                        !.obj.ctx = IF k.err = NoErr THEN k.newCtx ELSE @,
                        !.obj.store = IF k.err = NoErr THEN k.tc ELSE @]
    /\ UNCHANGED <<ctxs, issued, reqs, ret, done, tasks>>

\* StartTrace has panicked: the panic leaves the adapter.
Unwind ==
    /\ inbound.pc = "starting"
    /\ tasks["serve"].pc = "returned"
    /\ tasks["serve"].panic
    /\ inbound' = [inbound EXCEPT !.pc = "panicked"]
    /\ UNCHANGED <<ctxs, issued, reqs, ret, done, tasks>>

\* ginCtx.Next() / err = next(echoCtx): the handler runs and the response is
\* decided; Echo's adapter then reads the status, 200 when none was written.
RunHandler ==
    /\ inbound.pc = "handler"
    /\ \E out \in HandlerOutcomes(inbound.framework) :
          inbound' = [inbound EXCEPT
                        !.pc = "go metric",
                        !.saw = [runs |-> @.runs + 1, ctx |-> inbound.obj.ctx,
                                 store |-> inbound.obj.store],
                        !.obj.status = IF out.wrote = 0 THEN @ ELSE out.wrote,
                        !.statusCode = IF inbound.framework = "echo"
                                       THEN (IF out.wrote = 0 THEN 200 ELSE out.wrote)
                                       ELSE 0,
                        !.resp = [status |-> out.status, err |-> out.err]]
    /\ UNCHANGED <<ctxs, issued, reqs, ret, done, tasks>>

After(g) == CASE g = "metric" -> "go log" [] g = "log" -> "go finish"
              [] g = "finish" -> "return"

\* go func() { ... }(): the goroutine exists from here on; the third one is
\* started only if traceCtx != nil.
Go(g) ==
    /\ g \in {"metric", "log", "finish"}
    /\ inbound.pc = "go " \o g
    /\ IF g = "finish" /\ inbound.traceCtx.ptr = 0
       THEN UNCHANGED tasks
       ELSE tasks' = [tasks EXCEPT ![g].pc = "launched"]
    /\ inbound' = [inbound EXCEPT !.pc = After(g)]
    /\ UNCHANGED <<ctxs, issued, reqs, ret, done>>

\* The adapter returns: to gin, or to Echo with the handler's error.
AdapterReturn ==
    /\ inbound.pc = "return"
    /\ inbound' = [inbound EXCEPT !.pc = "returned"]
    /\ UNCHANGED <<ctxs, issued, reqs, ret, done, tasks>>

\* The framework takes the object back and hands it to a later request.
Recycle ==
    /\ inbound.pc = "returned"
    /\ ~inbound.recycled
    /\ Len(ctxs) < MaxCtx
    /\ ctxs' = Append(ctxs, RequestContext)
    /\ issued' = Append(issued, NoIssue)
    /\ \E st \in LaterStatuses :
          inbound' = [inbound EXCEPT
                        !.recycled = TRUE,
                        !.obj = [path |-> "/two", ctx |-> Len(ctxs) + 1,
                                 store |-> NilTC, status |-> st]]
    /\ UNCHANGED <<reqs, ret, done, tasks>>

\* The status a goroutine reads: gin's from the object (ginCtx.Writer.Status()),
\* Echo's from the adapter's local statusCode.
StatusRead ==
    IF inbound.framework = "gin" THEN inbound.obj.status ELSE inbound.statusCode

\* The first goroutine builds the metric from the object and sends it.
MetricTask ==
    /\ tasks["metric"].pc = "launched"
    /\ tasks' = [tasks EXCEPT !["metric"] =
                    [NoTask EXCEPT !.pc = "running",
                        !.call = [NoArgs EXCEPT !.op = "SendMetric",
                                    !.metric = [ServiceName |-> serviceName,
                                                Path |-> inbound.obj.path,
                                                StatusCode |-> StatusRead,
                                                Metadata |-> EmptyMap]]]]
    /\ UNCHANGED <<ctxs, issued, reqs, ret, done, inbound>>

\* (mutant) the log is built once the metric has been sent.
LogTaskAfterMetric ==
    /\ tasks["log"].pc = "launched"
    /\ tasks["metric"].pc = "returned"
    /\ tasks' = [tasks EXCEPT !["log"] =
                    [NoTask EXCEPT !.pc = "running",
                        !.call = [NoArgs EXCEPT !.op = "Log",
                                    !.ctx = inbound.obj.ctx,
                                    !.level = LevelOf(StatusRead),
                                    !.meta = [EmptyMap EXCEPT
                                                !["path"] = StrVal(inbound.obj.path),
                                                !["status_code"] = IntVal(StatusRead)]],
                        !.doneAtCall = Done(ctxs, done, inbound.obj.ctx)]]
    /\ UNCHANGED <<ctxs, issued, reqs, ret, done, inbound>>

\* The second goroutine derives the level from the status, builds the
\* metadata from the object and logs with the object's request context.
LogTask ==
    /\ tasks["log"].pc = "launched"
    /\ tasks' = [tasks EXCEPT !["log"] =
                    [NoTask EXCEPT !.pc = "running",
                        !.call = [NoArgs EXCEPT !.op = "Log",
                                    !.ctx = inbound.obj.ctx,
                                    !.level = LevelOf(StatusRead),
                                    !.meta = [EmptyMap EXCEPT
                                                !["path"] = StrVal(inbound.obj.path),
                                                !["status_code"] = IntVal(StatusRead)]],
                        !.doneAtCall = Done(ctxs, done, inbound.obj.ctx)]]
    /\ UNCHANGED <<ctxs, issued, reqs, ret, done, inbound>>

\* The third goroutine: c.FinishSpan(<request>.Context()), and after it has
\* returned c.FinishTrace(<request>.Context()).
FinishTask ==
    /\ \/ tasks["finish"].pc = "launched"
       \/ tasks["finish"].pc = "returned" /\ tasks["finish"].call.op = "FinishSpan"
    /\ \E k \in {tasks["finish"]} :
          tasks' = [tasks EXCEPT !["finish"] =
                      [NoTask EXCEPT !.pc = "running",
                          !.call = [NoArgs EXCEPT
                                      !.op = IF k.pc = "launched" THEN "FinishSpan"
                                             ELSE "FinishTrace",
                                      !.ctx = inbound.obj.ctx],
                          !.doneAtCall = Done(ctxs, done, inbound.obj.ctx),
                          !.past = IF k.pc = "launched" THEN <<>>
                                   ELSE <<[call |-> k.call, sent |-> k.sent,
                                           got |-> k.got, err |-> k.err]>>]]
    /\ UNCHANGED <<ctxs, issued, reqs, ret, done, inbound>>

InitAdapter ==
    /\ ctxs = <<RequestContext>>
    /\ issued = <<NoIssue>>
    /\ reqs = <<>>
    /\ ret = NoCall
    /\ tasks = [g \in Goroutines |-> NoTask]
    /\ done = {}
    /\ inbound \in {NewInbound(f) : f \in Frameworks}

NextAdapter ==
    \/ Entry
    \/ Attach
    \/ Unwind
    \/ RunHandler
    \/ \E g \in Goroutines : Go(g)
    \/ AdapterReturn
    \/ MetricTask
    \/ LogTask
    \/ FinishTask
    \/ \E g \in Goroutines : EnterDo(g)
    \/ \E g \in Goroutines : Answered(g)
    \/ \E g \in Goroutines : Return(g)
    \/ Recycle

SpecAdapter == InitAdapter /\ [][NextAdapter]_vars

\* What the Go scheduler and the HTTP client's timeout make happen: a
\* goroutine that can run does run, and c.client.Do comes back.  Nothing
\* says when the framework hands the request object to a later request.
AdapterProgress ==
    \/ Entry
    \/ Attach
    \/ Unwind
    \/ RunHandler
    \/ \E g \in Goroutines : Go(g)
    \/ AdapterReturn
    \/ MetricTask
    \/ LogTask
    \/ FinishTask
    \/ \E g \in Goroutines : EnterDo(g)
    \/ \E g \in Goroutines : Answered(g)
    \/ \E g \in Goroutines : Return(g)

SpecAdapterFair ==
    InitAdapter /\ [][NextAdapter]_vars /\ WF_vars(AdapterProgress)

\* ================================================================ claims
\* What the claims read from a state.
IsCarrier(v) == v.type = "*TraceContext"
Now(c) == Value(ctxs, c, TraceKey)
Is2xx(resp) == resp.status >= 200 /\ resp.status <= 299
Created(resp) == Is2xx(resp) /\ resp.json /\ resp.id # NoId
CreateFailed(resp) == ~Is2xx(resp) \/ ~resp.json
Ends(ep) == {i \in 1 .. Len(reqs) : reqs[i].ep = ep}

\* The context that StartTrace made and from which c got its trace.
RECURSIVE TraceRoot(_)
TraceRoot(c) ==
    LET h == Holder(ctxs, c, TraceKey)
    IN  IF h = 0 THEN 0
        ELSE IF issued[h].by = "StartTrace" THEN h
        ELSE TraceRoot(ctxs[h].parent)

\* C1: a finish-span request targets the span id the collector returned for
\* the create call that made the context's Carrier, and a finish-trace
\* request the trace id the collector returned for create-trace.
C1_FinishTargetsIssuedIds ==
    LET h == Holder(ctxs, ret.ctx, TraceKey)
    IN  /\ (ret.op = "FinishSpan" /\ IsCarrier(ret.had)) =>
              /\ Len(reqs) = 1
              /\ reqs[1].ep = "/spans/%s/end"
              /\ issued[h].by \in {"StartTrace", "StartSpan"}
              /\ reqs[1].id = issued[h].span
        /\ (ret.op = "FinishTrace" /\ IsCarrier(ret.had)) =>
              /\ Len(reqs) = 1
              /\ reqs[1].ep = "/traces/%s/end"
              /\ TraceRoot(ret.ctx) # 0
              /\ reqs[1].id = issued[TraceRoot(ret.ctx)].trace

\* FinishSpan on a nested span whose id differs from its parent's and from
\* the trace id.
C1_Witness ==
    LET h == Holder(ctxs, ret.ctx, TraceKey)
    IN  /\ ret.op = "FinishSpan"
        /\ h # 0
        /\ issued[h].by = "StartSpan"
        /\ TraceRoot(ret.ctx) # 0
        /\ issued[h].span # issued[TraceRoot(ret.ctx)].span
        /\ issued[h].span # issued[TraceRoot(ret.ctx)].trace
        /\ Len(reqs) = 1

\* C2: a successful StartSpan on a Carrier {T, S} sends one create-span
\* request with trace id T and parent id S and returns a context whose
\* Carrier is {T, the id the collector returned}.
C2_StartSpanLinksParent ==
    (ret.op = "StartSpan" /\ ~ret.panic /\ ret.err = NoErr) =>
        /\ IsCarrier(ret.had)
        /\ Len(reqs) = 1
        /\ reqs[1].ep = "/spans"
        /\ reqs[1].body.trace_id = ret.had.TraceID
        /\ reqs[1].body.parent_id = ret.had.SpanID
        /\ Created(reqs[1].resp)
        /\ Now(ret.newCtx) = Carrier(ret.had.TraceID, reqs[1].resp.id)

C2_Witness ==
    /\ ret.op = "StartSpan" /\ ~ret.panic /\ ret.err = NoErr
    /\ ret.had.TraceID # ret.had.SpanID
    /\ Now(ret.newCtx).SpanID # ret.had.SpanID
    /\ ret.had.SpanID # ""

\* C3: a successful StartTrace sends create-trace, then create-span with the
\* new trace id and no parent, and returns a context whose Carrier is
\* {trace id returned, span id returned}, the same object as the returned
\* Carrier.
C3_StartTraceRootSpan ==
    (ret.op = "StartTrace" /\ ~ret.panic /\ ret.err = NoErr) =>
        /\ Len(reqs) = 2
        /\ reqs[1].ep = "/traces"
        /\ reqs[2].ep = "/spans"
        /\ Created(reqs[1].resp) /\ Created(reqs[2].resp)
        /\ reqs[2].body.trace_id = reqs[1].resp.id
        /\ reqs[2].body.parent_id = ""
        /\ Now(ret.newCtx) = Carrier(reqs[1].resp.id, reqs[2].resp.id)
        /\ ret.tc.ptr = Holder(ctxs, ret.newCtx, TraceKey)
        /\ ret.tc.ptr = ret.newCtx
        /\ ret.tc.TraceID = reqs[1].resp.id
        /\ ret.tc.SpanID = reqs[2].resp.id

\* A trace started on a context that already carried another span.
C3_Witness ==
    /\ ret.op = "StartTrace" /\ ~ret.panic /\ ret.err = NoErr
    /\ IsCarrier(ret.had)
    /\ ret.had.SpanID # ""
    /\ ret.tc.TraceID # ret.tc.SpanID

\* C4: on a context with no Carrier, StartSpan, FinishSpan and FinishTrace
\* return "no trace context found" and send nothing, and StartSpan returns
\* the context it was given.
C4_NoCarrierNoRequest ==
    (ret.op \in {"StartSpan", "FinishSpan", "FinishTrace"} /\ ~IsCarrier(ret.had)) =>
        /\ ret.err = ErrNoTrace
        /\ ~ret.panic
        /\ reqs = <<>>
        /\ ret.op = "StartSpan" => ret.newCtx = ret.ctx

\* The context holds a foreign value under the key, above a real Carrier.
C4_Witness ==
    /\ ret.op = "FinishSpan"
    /\ ret.had.type = "string"
    /\ \E c \in 1 .. Len(ctxs) : ctxs[ret.ctx].parent = c /\ IsCarrier(Now(c))

\* C5: when create-trace succeeded and the root-span request failed,
\* StartTrace returns the context it was given, with the Carrier (if any)
\* it had before, and the error.
C5_RootSpanFailureKeepsContext ==
    (ret.op = "StartTrace" /\ Len(reqs) = 2 /\ CreateFailed(reqs[2].resp)) =>
        /\ ~ret.panic
        /\ ret.newCtx = ret.ctx
        /\ Now(ret.newCtx) = ret.had
        /\ ret.err \in {ErrSend, ErrStatus, ErrDecode}
        /\ ret.err = ErrStatus <=> (reqs[2].resp.status # 0 /\ ~Is2xx(reqs[2].resp))

C5_Witness ==
    /\ ret.op = "StartTrace" /\ Len(reqs) = 2
    /\ reqs[2].resp = Http500
    /\ reqs[1].resp.id = "a"
    /\ ret.err = ErrStatus

\* C6: when create-trace fails, StartTrace returns the context it was
\* given, a nil Carrier and the error, and sends no create-span request.
C6_TraceFailureSendsNoSpan ==
    (ret.op = "StartTrace" /\ CreateFailed(reqs[1].resp)) =>
        /\ ~ret.panic
        /\ ret.newCtx = ret.ctx
        /\ Now(ret.newCtx) = ret.had
        /\ ret.tc = NilTC
        /\ ret.err \in {ErrSend, ErrStatus, ErrDecode}
        /\ Len(reqs) = 1
        /\ Ends("/spans") = {}

C6_Witness ==
    /\ ret.op = "StartTrace"
    /\ reqs[1].resp = OkGarbage
    /\ ret.err = ErrDecode
    /\ IsCarrier(ret.had)

\* ------------------------------------------------- claims about Instrument
CompletionLogs ==
    {i \in Ends("/logs") :
        reqs[i].body.message[1] \in {"Operation completed: %s", "Operation failed: %s"}}
FinishFailureLogs ==
    {i \in Ends("/logs") : reqs[i].body.message = <<"Failed to finish span">>}
LogsAt(level) == {i \in Ends("/logs") : reqs[i].body.level = level}
FinishSpanFailed ==
    \/ Ends("/spans/%s/end") = {}
    \/ \E i \in Ends("/spans/%s/end") : ~Is2xx(reqs[i].resp)

\* C7: the function returned by Instrument returns exactly what fn
\* returned, for every outcome of its span-start, span-finish and log
\* requests.
C7_InstrumentReturnsFnError ==
    ret.op = "Instrument" => (~ret.panic /\ ret.err = ret.fnErr)

C9_FnCalledExactlyOnce ==
    ret.op = "Instrument" =>
        /\ ret.fnCalls = 1
        /\ ~ret.started => ret.fnCtx = ret.ctx
        /\ ret.started =>
              /\ ret.fnCtx # ret.ctx
              /\ Now(ret.fnCtx) = Carrier(ret.had.TraceID, reqs[1].resp.id)
        /\ ~IsCarrier(ret.had) => Cardinality(CompletionLogs) = 1

\* C10: a call whose StartSpan failed sends no finish-span request.
C10_FinishesOnlyOwnSpan ==
    (ret.op = "Instrument" /\ ~ret.started) => Ends("/spans/%s/end") = {}

\* The requests of the nested call on record: the ones g2 sent (while g1's
\* function ran) and the ones g1 sent itself.
G2 == {i \in 1 .. Len(reqs) : i >= ret.fnFrom /\ i <= ret.fnTo}
G1 == (1 .. Len(reqs)) \ G2
Of(I, ep) == {i \in I : reqs[i].ep = ep}

\* C11: when the function of an instrumented g1 calls an instrumented g2 on
\* the context it received, g2's create-span request names g1's span as its
\* parent, every finish-span request g2 sends targets the span g2 created
\* and precedes g1's finish-span request, and every finish-span request g1
\* sends targets the span g1 created.
C11_NestedSpansPairUp ==
    ret.op = "Nested" =>
        /\ \A i \in Of(G2, "/spans"), j \in Of(G1, "/spans") :
               Created(reqs[j].resp) => reqs[i].body.parent_id = reqs[j].resp.id
        /\ \A i \in Of(G2, "/spans/%s/end") :
               \E j \in Of(G2, "/spans") :
                   Created(reqs[j].resp) /\ reqs[i].id = reqs[j].resp.id
        /\ \A i \in Of(G2, "/spans/%s/end"), j \in Of(G1, "/spans/%s/end") : i < j
        /\ \A i \in Of(G1, "/spans/%s/end") :
               \E j \in Of(G1, "/spans") :
                   Created(reqs[j].resp) /\ reqs[i].id = reqs[j].resp.id

\* C12: a StartSpan or StartTrace call leaves every context that existed
\* before it as it was, the one it was given included: the value read from
\* it under the trace key is the same after the call as before.
C12_GivenContextUnchanged ==
    [][ret'.op \in {"StartSpan", "StartTrace"} =>
          \A c \in 1 .. Len(ctxs) :
              /\ Len(ctxs') >= c
              /\ Value(ctxs', c, TraceKey) = Value(ctxs, c, TraceKey)]_vars

\* StartSpan has returned a new context whose Carrier names another span
\* than the Carrier of the context it was given, which still reads as it did
\* when the call was made.
C12_Witness ==
    /\ ret.op = "StartSpan"
    /\ ret.err = NoErr /\ ~ret.panic
    /\ IsCarrier(ret.had)
    /\ ret.newCtx # ret.ctx
    /\ Now(ret.newCtx).SpanID # ret.had.SpanID
    /\ Now(ret.ctx) = ret.had

\* C13: every Carrier that StartTrace returns to its caller, and every
\* Carrier read from a context that StartTrace or StartSpan returned, has a
\* non-empty trace id and a non-empty span id, whatever the collector
\* answered.
C13_CarriersNonEmpty ==
    /\ (ret.op = "StartTrace" /\ ~ret.panic /\ ret.tc.ptr # 0) =>
           ret.tc.TraceID # "" /\ ret.tc.SpanID # ""
    /\ (ret.op \in {"StartTrace", "StartSpan"} /\ ~ret.panic
            /\ IsCarrier(Now(ret.newCtx))) =>
           Now(ret.newCtx).TraceID # "" /\ Now(ret.newCtx).SpanID # ""

\* The Carrier read from c names the span whose id the collector returned to
\* the call that made the Carrier.
NamesStartedSpan(c) ==
    LET h == Holder(ctxs, c, TraceKey)
    IN  /\ issued[h].by \in {"StartTrace", "StartSpan"}
        /\ Now(c).SpanID = issued[h].span

\* C14: the span id of the Carrier read from any context names a span that
\* has been started and not finished: once FinishSpan has ended a span, no
\* context's Carrier names that span any more.
C14_CarrierNamesOpenSpan ==
    /\ \A c \in Ctxs : IsCarrier(Now(c)) => NamesStartedSpan(c)
    /\ (ret.op = "FinishSpan" /\ ret.err = NoErr) =>
           \A c \in Ctxs : IsCarrier(Now(c)) => Now(c).SpanID # reqs[1].id

\* C14 (amended): the span id of the Carrier read from any context names a
\* span that has been started, finished or not: FinishSpan(ctx) sends the
\* finish request for the span ctx names and leaves ctx naming that span.
C14_CarrierNamesStartedSpan ==
    /\ \A c \in Ctxs : IsCarrier(Now(c)) => NamesStartedSpan(c)
    /\ (ret.op = "FinishSpan" /\ IsCarrier(ret.had)) =>
           /\ Len(reqs) = 1
           /\ Now(ret.ctx) = ret.had
           /\ reqs[1].id = Now(ret.ctx).SpanID

\* The collector has acknowledged the end of a span with a non-empty id, and
\* the context still names it.
C14_Witness ==
    /\ ret.op = "FinishSpan"
    /\ ret.err = NoErr
    /\ IsCarrier(Now(ret.ctx))
    /\ Now(ret.ctx).SpanID # ""
    /\ Now(ret.ctx).SpanID = reqs[1].id

\* The error values and the maps among the arguments of the LogError call on
\* record, by position.
ErrIdx == {i \in 1 .. Len(ret.input) : ret.input[i].type = "error"}
MapIdx == {i \in 1 .. Len(ret.input) : ret.input[i].type = "map"}
Min(S) == CHOOSE i \in S : \A j \in S : i <= j
Encodable(m) == \A k \in MetaKeys : m[k].t # "func"

\* The error a call returns for the collector's answer to its one request.
TransportResult(resp) ==
    IF resp.status = 0 THEN ErrSend
    ELSE IF Is2xx(resp) THEN NoErr
    ELSE ErrStatus

\* C15: LogError given one error value and one metadata mapping sends the
\* same entry whichever comes first: level ERROR, the message, and the
\* mapping's entries with the error's text under "error".
C15_ErrorAndMapInEitherOrder ==
    (ret.op = "LogError" /\ Len(ret.input) = 2 /\ ErrIdx # {} /\ MapIdx # {}) =>
        LET e == ret.input[Min(ErrIdx)].text
            m == ret.input[Min(MapIdx)].map
            meta == [m EXCEPT !["error"] = StrVal(e)]
        IN  IF Encodable(meta)
            THEN /\ Len(reqs) = 1
                 /\ reqs[1].ep = "/logs"
                 /\ reqs[1].body.level = "ERROR"
                 /\ reqs[1].body.message = Message
                 /\ reqs[1].body.meta = meta
            ELSE reqs = <<>> /\ ret.err = ErrMarshal

\* LogError was given a non-empty mapping first and the error second, and
\* the entry sent has the mapping's entry and the error's text.
C15_Witness ==
    /\ ret.op = "LogError"
    /\ Len(ret.input) = 2
    /\ ret.input[1].type = "map" /\ ret.input[2].type = "error"
    /\ ret.input[1].map["a"] = StrVal("x")
    /\ Len(reqs) = 1
    /\ reqs[1].body.meta["a"] = StrVal("x")
    /\ reqs[1].body.meta["error"] = StrVal(ret.input[2].text)

\* C16: of several error values or several mappings given to LogError, the
\* first error and the first mapping in argument order make the entry; the
\* later ones are ignored.
C16_FirstErrorFirstMapUsed ==
    (ret.op = "LogError" /\ Len(reqs) = 1) =>
        LET m == IF MapIdx # {} THEN ret.input[Min(MapIdx)].map ELSE EmptyMap
            meta == IF ErrIdx # {}
                    THEN [m EXCEPT !["error"] = StrVal(ret.input[Min(ErrIdx)].text)]
                    ELSE m
        IN  reqs[1].body.meta = meta

\* What Log sends for the call on record: one entry with the ids of the
\* Carrier the context held, empty when it held none, and the transport's
\* result returned.
LogSentOneEntry ==
    /\ Len(reqs) = 1
    /\ reqs[1].ep = "/logs"
    /\ reqs[1].body.service_name = serviceName
    /\ reqs[1].body.meta = ret.input
    /\ reqs[1].body.trace_id = (IF IsCarrier(ret.had) THEN ret.had.TraceID ELSE "")
    /\ reqs[1].body.span_id = (IF IsCarrier(ret.had) THEN ret.had.SpanID ELSE "")
    /\ ret.err = TransportResult(reqs[1].resp)

\* C17: Log sends exactly one entry, with the trace id and span id of the
\* Carrier in ctx, both empty when ctx holds no Carrier, and returns the
\* transport's result for that send.
C17_LogSendsOneEntry ==
    ret.op = "Log" => LogSentOneEntry

\* C17 (amended): the same, for metadata that can be encoded as JSON; with
\* metadata that cannot, Log sends nothing and returns the marshalling error.
C17_LogSendsOneEncodableEntry ==
    ret.op = "Log" =>
        IF Encodable(ret.input) THEN LogSentOneEntry
        ELSE reqs = <<>> /\ ret.err = ErrMarshal

\* Log on a context whose Carrier has a span id that differs from its trace
\* id: the entry carries both.
C17_Witness ==
    /\ ret.op = "Log"
    /\ IsCarrier(ret.had)
    /\ ret.had.SpanID # "" /\ ret.had.SpanID # ret.had.TraceID
    /\ Len(reqs) = 1
    /\ reqs[1].body.trace_id = ret.had.TraceID
    /\ reqs[1].body.span_id = ret.had.SpanID

C19_FailuresAreErrors ==
    ret.op \in {"StartTrace", "StartSpan"} => ~ret.panic

\* C20: when the collector answers the last request of an operation with a
\* status outside 200..299 the operation fails with the status error; when
\* it answers 2xx, a log, metric, finish-span or finish-trace call succeeds
\* whatever the body is, and only a create-trace or create-span call fails
\* on a body that is not JSON.
C20_StatusDecidesOutcome ==
    (ret.op # "none" /\ reqs # <<>> /\ reqs[Len(reqs)].resp.status # 0) =>
        LET q == reqs[Len(reqs)]
        IN  /\ ~Is2xx(q.resp) => ret.err = ErrStatus /\ ~ret.panic
            /\ (Is2xx(q.resp) /\ q.ep \notin {"/traces", "/spans"}) =>
                   ret.err = NoErr /\ ~ret.panic
            /\ (Is2xx(q.resp) /\ q.ep \in {"/traces", "/spans"} /\ ~q.resp.json) =>
                   ret.err = ErrDecode

\* A log was answered with status 299 and a body that is not JSON, and Log
\* returned no error.
C20_Witness ==
    /\ ret.op = "Log"
    /\ Len(reqs) = 1
    /\ reqs[1].resp.status = 299
    /\ ~reqs[1].resp.json
    /\ ret.err = NoErr

\* What the claims read from a goroutine's call.
Eps(k, ep) == {i \in 1 .. Len(k.sent) : k.sent[i].ep = ep}
OnWire(k) == Len(k.sent) > Len(k.got)

C26_SiblingSpansIndependent ==
    /\ Value(ctxs, 2, TraceKey) = Carrier("a", "b")
    /\ \A t \in DOMAIN tasks :
          LET k == tasks[t]
          IN  (k.call.op = "StartSpan" /\ k.call.ctx = 2) =>
                /\ \A i \in 1 .. Len(k.sent) :
                      /\ k.sent[i].ep = "/spans"
                      /\ k.sent[i].body.parent_id = "b"
                      /\ k.sent[i].body.trace_id = "a"
                /\ (k.pc = "returned" /\ k.err = NoErr /\ ~k.panic) =>
                      /\ k.newCtx \in Ctxs \ Handed
                      /\ ctxs[k.newCtx].parent = 2
                      /\ Value(ctxs, k.newCtx, TraceKey) = Carrier("a", k.got[1].id)
                      /\ \A u \in DOMAIN tasks \ {t} : tasks[u].newCtx # k.newCtx

\* Both goroutines started a span on the shared context with their requests
\* on the wire at the same time (the request's context was cancelled while
\* both were), and the collector gave them different ids.
C26_Witness ==
    /\ DOMAIN tasks = Workers
    /\ \A t \in Workers :
          /\ tasks[t].call.op = "StartSpan" /\ tasks[t].call.ctx = 2
          /\ tasks[t].pc = "returned" /\ tasks[t].err = NoErr /\ ~tasks[t].panic
          /\ tasks[t].doneInFlight
    /\ tasks["t1"].got[1].id # tasks["t2"].got[1].id

C28_LogInfoNeverWaits ==
    \A t \in DOMAIN tasks :
        tasks[t].call.op = "LogInfo" => tasks[t].pc # "waiting"

\* C29: cancelling the context a telemetry operation was given neither stops
\* nor fails it: no request is given up because of a cancelled context,
\* every request handed to the HTTP client leaves the process, and a call
\* made on a cancelled context sends what it would send otherwise and gets
\* the result the collector's answer decides.
C29_CancellationIgnored ==
    \A t \in DOMAIN tasks :
        LET k == tasks[t]
        IN  /\ ~k.cut
            /\ \A i \in 1 .. Len(k.sent) : k.sent[i].wire
            /\ (k.pc = "returned" /\ k.call.op \in {"LogInfo", "SendMetric"}) =>
                   /\ Len(k.sent) = 1
                   /\ k.err = TransportResult(k.got[1])
            /\ (k.pc = "returned" /\ k.call.ctx = 2 /\
                 k.call.op \in {"FinishSpan", "FinishTrace"}) =>
                   /\ Len(k.sent) = 1
                   /\ k.err = TransportResult(k.got[1])

\* One call was made on a context already cancelled, the other's context was
\* cancelled while its request was on the wire; both were answered 200 and
\* returned nil.
C29_Witness ==
    \E t, u \in DOMAIN tasks :
        /\ tasks[t].pc = "returned" /\ tasks[t].doneAtCall
        /\ tasks[t].call.op = "LogInfo"
        /\ tasks[t].got = <<OkGarbage>> /\ tasks[t].err = NoErr
        /\ tasks[u].pc = "returned" /\ tasks[u].doneInFlight
        /\ tasks[u].call.op = "FinishSpan"
        /\ tasks[u].got = <<OkGarbage>> /\ tasks[u].err = NoErr

\* C30: the Carrier sits under a key no other code can use: whatever key
\* other code attaches a value of its own under, the string
\* "go-insight-trace" included, the context it gets answers
\* GetTraceFromContext with the same Carrier as the context it started from.
C30_ForeignValueCannotCollide ==
    ret.op = "WithValue" =>
        GetTraceFromContext(ctxs, ret.newCtx) = GetTraceFromContext(ctxs, ret.ctx)

\* C25: the level of the adapter's completion log is decided by the status
\* of the response alone: ERROR from 400 on, WARN from 300 to 399, INFO
\* otherwise.
C25_LevelFromStatus ==
    \A g \in DOMAIN tasks :
        (g = "log" /\ tasks[g].call.op = "Log") =>
            tasks[g].call.level = LevelOf(inbound.resp.status)

\* What the claims read from an adapter's request.
Serving == inbound # <<>>
Launched(g) == tasks[g].pc # "idle"
HandlerDue == inbound.pc \in {"go metric", "go log", "go finish", "return", "returned"}

\* C23: on the path of a request through an adapter, from the adapter's entry
\* to the return of the handler's response, nothing waits for a round trip
\* to the collector.
C23_RequestPathNeverWaits ==
    Serving => tasks["serve"].pc # "waiting"

\* C24: an adapter runs the handler exactly once whatever StartTrace does.
\* When StartTrace succeeded the handler finds the new Carrier in the
\* request's context and in the adapter's store; when it failed the handler
\* finds the request's own context and an empty store, and the metric and
\* the completion log are emitted all the same.
C24_HandlerRunsOnce ==
    Serving =>
        /\ inbound.pc # "panicked"
        /\ inbound.saw.runs = IF HandlerDue THEN 1 ELSE 0
        /\ (HandlerDue /\ inbound.err = NoErr) =>
               /\ inbound.saw.store.ptr = inbound.saw.ctx
               /\ inbound.saw.ctx # 1
               /\ IsCarrier(Value(ctxs, inbound.saw.ctx, TraceKey))
               /\ Value(ctxs, inbound.saw.ctx, TraceKey).TraceID =
                      inbound.saw.store.TraceID
               /\ Value(ctxs, inbound.saw.ctx, TraceKey).SpanID =
                      inbound.saw.store.SpanID
        /\ (HandlerDue /\ inbound.err # NoErr) =>
               /\ inbound.saw.ctx = 1
               /\ inbound.saw.store = NilTC
        /\ inbound.pc = "returned" => Launched("metric") /\ Launched("log")
        /\ \A g \in {"metric", "log"} :
              tasks[g].pc = "returned" =>
                  Len(tasks[g].sent) = 1 /\ tasks[g].sent[1].wire

\* The goroutines an adapter starts, and what each can do by itself.
Emitters == {"metric", "log", "finish"}
Unfinished(g) ==
    \/ tasks[g].pc \in {"launched", "running", "waiting"}
    \/ g = "finish" /\ tasks[g].pc = "returned" /\ tasks[g].call.op = "FinishSpan"
OwnStep(g) ==
    \/ g = "metric" /\ MetricTask
    \/ g = "log" /\ LogTask
    \/ g = "finish" /\ FinishTask
    \/ EnterDo(g)
    \/ Answered(g)
    \/ Return(g)
Independent ==
    /\ \A g \in Emitters : inbound.pc = "go " \o g => ENABLED Go(g)
    /\ inbound.pc = "return" => ENABLED AdapterReturn
    /\ \A g \in Emitters : Unfinished(g) => ENABLED OwnStep(g)
ResponseFixed ==
    HandlerDue => inbound'.resp = inbound.resp /\ inbound'.pc # "panicked"

\* C22 (as stated): after the handler has returned an adapter starts three
\* goroutines, for the metric, the completion log and the finishing of span
\* and trace, and returns without waiting for them; whatever state the
\* others are in, failed or stalled, each start and each goroutine can go on,
\* and nothing changes the response or what the adapter returns.
C22_ThreeIndependentTasks ==
    /\ [](Serving =>
            /\ inbound.pc = "returned" => \A g \in Emitters : Launched(g)
            /\ Independent)
    /\ [][Serving => ResponseFixed]_vars

\* C22 (amended): the same, with the finishing goroutine started exactly
\* when StartTrace returned a trace context (traceCtx != nil).
C22_IndependentTasks ==
    /\ [](Serving =>
            /\ inbound.pc = "returned" =>
                  /\ Launched("metric") /\ Launched("log")
                  /\ Launched("finish") <=> inbound.traceCtx.ptr # 0
            /\ Independent)
    /\ [][Serving => ResponseFixed]_vars

\* The adapter has returned; the metric's request is still unanswered, the
\* log's request has failed, and the finishing goroutine has ended the span
\* and the trace.
C22_Witness ==
    /\ Serving
    /\ inbound.pc = "returned"
    /\ tasks["metric"].pc = "waiting"
    /\ tasks["log"].pc = "returned" /\ tasks["log"].got = <<NetFail>>
    /\ tasks["finish"].pc = "returned" /\ tasks["finish"].call.op = "FinishTrace"
    /\ tasks["finish"].err = NoErr

\* C37: FinishTrace on a context with a Carrier sends exactly one request,
\* the trace-end for the Carrier's trace id, and no span-end: the root span
\* that StartTrace created stays unfinished unless FinishSpan is called on
\* the context StartTrace returned.
C37_FinishTraceEndsTraceOnly ==
    (ret.op = "FinishTrace" /\ IsCarrier(ret.had)) =>
        /\ Len(reqs) = 1
        /\ reqs[1].ep = "/traces/%s/end"
        /\ reqs[1].id = ret.had.TraceID
        /\ Ends("/spans/%s/end") = {}

\* FinishTrace was called on the context StartTrace returned, whose root
\* span has an id other than the trace's, and the collector answered 200.
C37_Witness ==
    /\ ret.op = "FinishTrace"
    /\ ret.ctx # 0
    /\ Holder(ctxs, ret.ctx, TraceKey) = ret.ctx
    /\ issued[ret.ctx].by = "StartTrace"
    /\ issued[ret.ctx].span # issued[ret.ctx].trace
    /\ ret.err = NoErr
    /\ Len(reqs) = 1
    /\ Is2xx(reqs[1].resp)

\* C32: within one call of an instrumented function the requests go out in
\* the order of the steps: the create-span request, then (after fn) the
\* finish-span request, then the completion log.
C32_FinishBeforeCompletionLog ==
    ret.op = "Instrument" =>
        /\ \A i \in Ends("/spans"), j \in Ends("/spans/%s/end") : i < j
        /\ \A j \in Ends("/spans/%s/end"), k \in CompletionLogs : j < k

\* C36: LogError writes to nothing the caller owns: a metadata mapping passed
\* to it has the same entries after the call as before, so calls that share
\* one mapping do not interfere.
C36_LogErrorLeavesArgsAlone ==
    ret.op = "LogError" => ret.after = ret.input

\* What belongs to the request the adapter served: the path it came with, the
\* request context its handler saw, the status the adapter found when the
\* handler had returned.
OwnPath == NewInbound(inbound.framework).obj.path
OwnStatus ==
    IF inbound.framework = "gin" THEN inbound.resp.status ELSE inbound.statusCode

\* C35: whenever the framework takes the request object back after the
\* adapter has returned, the three background tasks still emit the data of
\* the request they were started for: its path and status in the metric and
\* in the log, its request context in the log and in the two finish calls.
C35_TasksEmitOwnData ==
    \A g \in DOMAIN tasks :
        /\ (g = "metric" /\ tasks[g].call.op = "SendMetric") =>
               /\ tasks[g].call.metric.Path = OwnPath
               /\ tasks[g].call.metric.StatusCode = OwnStatus
        /\ (g = "log" /\ tasks[g].call.op = "Log") =>
               /\ tasks[g].call.ctx = inbound.saw.ctx
               /\ tasks[g].call.meta["path"] = StrVal(OwnPath)
               /\ tasks[g].call.meta["status_code"] = IntVal(OwnStatus)
        /\ (g = "finish" /\ tasks[g].call.op \in {"FinishSpan", "FinishTrace"}) =>
               tasks[g].call.ctx = inbound.saw.ctx

\* The finishing task's two calls: the FinishSpan call it has left behind and
\* the FinishTrace call it is in.
FinishingDone ==
    /\ tasks["finish"].call.op = "FinishTrace"
    /\ tasks["finish"].pc = "returned"
SpanEndSent ==
    \E i \in Eps(tasks["finish"].past[1], "/spans/%s/end") :
        tasks["finish"].past[1].sent[i].id = inbound.traceCtx.SpanID
TraceEndSent ==
    \E i \in Eps(tasks["finish"], "/traces/%s/end") :
        tasks["finish"].sent[i].id = inbound.traceCtx.TraceID

\* C34: when the adapter has started a trace with its root span, its
\* finishing task sends the finish-span request for the root span and, after
\* it, the finish-trace request; the finish-trace request is sent also when
\* the finish-span call failed.
C34_FinishSpanThenTrace ==
    (Serving /\ "finish" \in DOMAIN tasks /\ inbound.err = NoErr) =>
        /\ Eps(tasks["finish"], "/traces/%s/end") # {} =>
               tasks["finish"].past # <<>> /\ SpanEndSent
        /\ FinishingDone => SpanEndSent /\ TraceEndSent

\* The collector has answered the adapter's create-trace request with a trace
\* id; a finish-trace request for that id has been sent.
TraceCreated ==
    /\ Serving /\ "serve" \in DOMAIN tasks
    /\ tasks["serve"].call.op = "StartTrace"
    /\ Len(tasks["serve"].got) >= 1
    /\ Created(tasks["serve"].got[1])
TraceEnded ==
    /\ TraceCreated
    /\ \E i \in Eps(tasks["finish"], "/traces/%s/end") :
           tasks["finish"].sent[i].id = tasks["serve"].got[1].id

\* C33: for every request through an adapter, a trace that the collector has
\* created is eventually finished: a finish-trace request for its id is sent
\* after the handler has returned, also when the root span was not created.
C33_CreatedTraceIsFinished ==
    TraceCreated ~> TraceEnded

\* C31: a Carrier does not change once it is attached.  What a context reads
\* under the client's key (trace id and span id) is the same at every later
\* read, whatever the caller does with the Carriers that StartTrace and
\* GetTraceFromContext handed out.
C31_CarrierImmutable ==
    [][\A c \in 1 .. Len(ctxs) :
          /\ Len(ctxs') >= c
          /\ Value(ctxs', c, TraceKey) = Value(ctxs, c, TraceKey)]_vars

====
